---- MODULE Spec2Model ----
(***************************************************************************)
(* Model of src/components/Model/model.utils.ts: the query-parameter       *)
(* hooks (useModelQueryParams, useAppQueryParams) over the router's query  *)
(* and the three paginated fetch hooks (useQueryModels, useQueryApps,      *)
(* useQueryModelsOnly).                                                    *)
(*                                                                         *)
(* JavaScript values are tagged records [t, v]; an object is a function    *)
(* from its own keys to values, so an absent key is a key outside DOMAIN.  *)
(***************************************************************************)
EXTENDS Integers, Sequences, FiniteSets, TLC

\* ------------------------------------------------------------------ values

Undefined == [t |-> "undefined", v |-> ""]

Str(s) == [t |-> "string", v |-> s]

Bool(b) == [t |-> "boolean", v |-> IF b THEN "true" ELSE "false"]

\* a repeated URL parameter (?tag=a&tag=b) reaches the hook as a string[]
StringArray == [t |-> "array", v |-> "a,b"]

EmptyObject == [k \in {} |-> Undefined]

\* ------------------------------------------------- collaborators' contracts

\* enumerations imported by the schema; members are representative
MetricTimeframe == {"Day", "Week", "Month", "Year", "AllTime"}

PeriodMode == {"stats", "rank"}

ModelSort == {"Newest", "Highest Rated", "Most Downloaded"}

AppSort == {"Newest", "Highest Rated", "Most Used"}

ViewMode == {"categories", "feed"}

\* usernameSchema: a string
usernameSchema(val) == val.t = "string"

\* postgresSlugify on the usernames the model draws: lower-cased,
\* blank replaced by an underscore
postgresSlugify(s) ==
    CASE s = "Foo Bar" -> "foo_bar"
      [] s = "foo_bar" -> "foo_bar"
      [] OTHER -> s

\* the emptiness predicate of removeEmpty: undefined and "" are empty
IsEmpty(val) == val.t = "undefined" \/ (val.t = "string" /\ val.v = "")

removeEmpty(obj) == [k \in {j \in DOMAIN obj : ~IsEmpty(obj[j])} |-> obj[k]]

\* ------------------------------------------------------------------ schema

RecognizedKeys ==
    {"period", "periodMode", "sort", "query", "user", "username",
     "tagname", "tag", "favorites", "hidden", "view"}

\* z.string()
zString(val) == [ok |-> val.t = "string", out |-> val]

\* z.nativeEnum(E) / z.enum([...])
zEnum(members, val) == [ok |-> val.t = "string" /\ val.v \in members, out |-> val]

\* z.boolean()
zBoolean(val) == [ok |-> val.t = "boolean", out |-> val]

\* faulty variant: the native boolean is not recognised, only the literal string
booleanPreprocessStringOnly(val) == Bool(val = Str("true"))

\* (val) => val === true || val === 'true'
booleanPreprocess(val) == Bool(val = Bool(TRUE) \/ val = Str("true"))

\* usernameSchema.transform(postgresSlugify)
zUsername(val) ==
    [ok |-> usernameSchema(val),
     out |-> IF usernameSchema(val) THEN Str(postgresSlugify(val.v)) ELSE val]

\* .partial(): an undefined input is accepted as undefined without running
\* the inner type (so neither preprocess nor transform sees it)
zOptional(parsed, val) ==
    IF val = Undefined THEN [ok |-> TRUE, out |-> Undefined] ELSE parsed

\* the fields of modelQueryParamSchema
modelField(key, val) ==
    CASE key = "period" -> zOptional(zEnum(MetricTimeframe, val), val)
      [] key = "periodMode" -> zOptional(zEnum(PeriodMode, val), val)
      [] key = "sort" -> zOptional(zEnum(ModelSort, val), val)
      [] key = "query" -> zOptional(zString(val), val)
      [] key = "user" -> zOptional(zString(val), val)
      [] key = "username" -> zOptional(zUsername(val), val)
      [] key = "tagname" -> zOptional(zString(val), val)
      [] key = "tag" -> zOptional(zString(val), val)
      [] key = "favorites" -> zOptional(zBoolean(booleanPreprocess(val)), val)
      [] key = "hidden" -> zOptional(zBoolean(booleanPreprocess(val)), val)
      [] key = "view" -> zOptional(zEnum(ViewMode, val), val)

\* faulty variant: the extension of sort is forgotten, the App schema is the Model one
appFieldNoExtend(key, val) == modelField(key, val)

\* modelQueryParamSchema.extend({ sort: z.nativeEnum(AppSort) }).partial()
appField(key, val) ==
    IF key = "sort" THEN zOptional(zEnum(AppSort, val), val) ELSE modelField(key, val)

\* faulty variant: unknown keys pass through and the boolean fields are preprocessed
\* even when absent
modelSafeParseLoose(q) ==
    LET present == DOMAIN q \cap RecognizedKeys
        parsed == [k \in present |-> modelField(k, q[k])]
        success == \A k \in present : parsed[k].ok
    IN  [success |-> success,
         data |-> IF success
                  THEN [k \in DOMAIN q \cup {"favorites", "hidden"} |->
                          IF k \in present THEN parsed[k].out
                          ELSE IF k \in DOMAIN q THEN q[k] ELSE Bool(FALSE)]
                  ELSE EmptyObject]

\* faulty variant: a field that fails validation is dropped instead of failing the read
modelSafeParsePerField(q) ==
    LET present == DOMAIN q \cap RecognizedKeys
        parsed == [k \in present |-> modelField(k, q[k])]
    IN  [success |-> TRUE,
         data |-> [k \in {j \in present : parsed[j].ok} |-> parsed[k].out]]

\* modelQueryParamSchema.safeParse(query): the keys of the shape that the
\* input holds are parsed, every other key is stripped
modelSafeParse(q) ==
    LET present == DOMAIN q \cap RecognizedKeys
        parsed == [k \in present |-> modelField(k, q[k])]
        success == \A k \in present : parsed[k].ok
    IN  [success |-> success,
         data |-> IF success THEN [k \in present |-> parsed[k].out] ELSE EmptyObject]

\* appQueryParamSchema.safeParse(query)
appSafeParse(q) ==
    LET present == DOMAIN q \cap RecognizedKeys
        parsed == [k \in present |-> appField(k, q[k])]
        success == \A k \in present : parsed[k].ok
    IN  [success |-> success,
         data |-> IF success THEN [k \in present |-> parsed[k].out] ELSE EmptyObject]

\* { view: 'categories' }
DefaultData == [k \in {"view"} |-> Str("categories")]

\* const data = result.success ? result.data : { view: 'categories' }
modelDataOf(result) == IF result.success THEN result.data ELSE DefaultData

appDataOf(result) == IF result.success THEN result.data ELSE DefaultData

\* faulty variant: the validated read result, not the raw query, is merged
modelSetQueryOverData(q, filters) ==
    LET base == modelDataOf(modelSafeParse(q))
    IN  removeEmpty([k \in DOMAIN base \cup DOMAIN filters |->
                       IF k \in DOMAIN filters THEN filters[k] ELSE base[k]])

\* faulty variant: on a key present in both, the value of the query is kept
modelSetQueryQueryWins(q, filters) ==
    removeEmpty([k \in DOMAIN q \cup DOMAIN filters |->
                   IF k \in DOMAIN q THEN q[k] ELSE filters[k]])

\* faulty variant: a key that already carries the requested value is cleared
modelSetQueryToggle(q, filters) ==
    removeEmpty([k \in DOMAIN q \cup DOMAIN filters |->
                   IF k \in DOMAIN filters
                   THEN IF k \in DOMAIN q /\ q[k] = filters[k] THEN Undefined
                        ELSE filters[k]
                   ELSE q[k]])

\* removeEmpty({ ...query, ...filters }) in useModelQueryParams
modelSetQuery(q, filters) ==
    removeEmpty([k \in DOMAIN q \cup DOMAIN filters |->
                   IF k \in DOMAIN filters THEN filters[k] ELSE q[k]])

\* removeEmpty({ ...query, ...filters }) in useAppQueryParams
appSetQuery(q, filters) ==
    removeEmpty([k \in DOMAIN q \cup DOMAIN filters |->
                   IF k \in DOMAIN filters THEN filters[k] ELSE q[k]])

\* ------------------------------------------------------------- input draws

MaxQueryKeys == 2

Keys == RecognizedKeys \cup {"page"}

\* raw values a URL may carry under each key
RawValues(key) ==
    CASE key = "period" -> {Str("Never")}
      [] key = "periodMode" -> {Str("rank")}
      [] key = "sort" -> {Str("Newest"), Str("Most Downloaded"), Str("Most Used"),
                          Str("Oldest")}
      [] key = "query" -> {Str("cat"), Str("")}
      [] key = "user" -> {Str("7")}
      [] key = "username" -> {Str("Foo Bar")}
      [] key = "tagname" -> {Str("anime")}
      [] key = "tag" -> {Str("anime"), StringArray}
      [] key = "favorites" -> {Str("true"), Bool(TRUE), Str("yes")}
      [] key = "hidden" -> {Str("false")}
      [] key = "view" -> {Str("feed"), Str("grid"), Str("")}
      [] key = "page" -> {Str("2")}

AllRawValues == UNION {RawValues(k) : k \in Keys}

Urls ==
    UNION {{q \in [D -> AllRawValues] : \A k \in D : q[k] \in RawValues(k)} :
             D \in {S \in SUBSET Keys : Cardinality(S) <= MaxQueryKeys}}

Pathnames == {"/models"}

\* updates handed to set: typed values of recognized fields, or undefined
UpdateValues(key) ==
    CASE key = "sort" -> {Str("Newest"), Undefined}
      [] key = "query" -> {Str("cat"), Str("")}
      [] key = "tag" -> {Str("anime")}
      [] key = "favorites" -> {Bool(TRUE), Bool(FALSE)}
      [] key = "view" -> {Str("feed"), Undefined}
      [] OTHER -> {}

AllUpdateValues == UNION {UpdateValues(k) : k \in RecognizedKeys}

Updates ==
    UNION {{f \in [D -> AllUpdateValues] : \A k \in D : f[k] \in UpdateValues(k)} :
             D \in {S \in SUBSET RecognizedKeys : Cardinality(S) <= 1}}
    \cup {[k \in {"sort", "view"} |-> IF k = "sort" THEN Undefined ELSE Str("feed")]}

\* ------------------------------------------------------------- fetch hooks

NoCursor == [t |-> "undefined", n |-> 0]

Number(n) == [t |-> "number", n |-> n]

\* a page of a list endpoint; falsy stands for an undefined entry of data.pages
Page(items, nextCursor) == [falsy |-> FALSE, items |-> items, nextCursor |-> nextCursor]

UndefinedPage == [falsy |-> TRUE, items |-> <<>>, nextCursor |-> NoCursor]

\* data of useInfiniteQuery before any page was fetched
NoData == [defined |-> FALSE, pages |-> <<>>]

\* Array.prototype.flatMap: the mapped arrays, concatenated in order
RECURSIVE Flat(_)
Flat(arrays) ==
    IF arrays = <<>> THEN <<>> ELSE Head(arrays) \o Flat(Tail(arrays))

\* useQueryModels: (lastPage) => (!!lastPage ? lastPage.nextCursor : 0)
modelsGetNextPageParam(lastPage) ==
    IF ~lastPage.falsy THEN lastPage.nextCursor ELSE Number(0)

\* faulty variant: a first page without a cursor gives the first-page sentinel
modelsGetPreviousPageParamOrZero(firstPage) ==
    IF ~firstPage.falsy /\ firstPage.nextCursor # NoCursor
    THEN firstPage.nextCursor ELSE Number(0)

\* useQueryModels: (firstPage) => (!!firstPage ? firstPage.nextCursor : 0)
modelsGetPreviousPageParam(firstPage) ==
    IF ~firstPage.falsy THEN firstPage.nextCursor ELSE Number(0)

\* faulty variant: the pages are flattened newest first
modelsFlattenReversed(d) ==
    IF d.defined
    THEN Flat([i \in 1..Len(d.pages) |->
                 IF ~d.pages[Len(d.pages) + 1 - i].falsy
                 THEN d.pages[Len(d.pages) + 1 - i].items ELSE <<>>])
    ELSE <<>>

\* useQueryModels: data?.pages.flatMap((x) => (!!x ? x.items : [])) ?? []
modelsFlatten(d) ==
    IF d.defined
    THEN Flat([i \in 1..Len(d.pages) |->
                 IF ~d.pages[i].falsy THEN d.pages[i].items ELSE <<>>])
    ELSE <<>>

\* useQueryApps
appsGetNextPageParam(lastPage) ==
    IF ~lastPage.falsy THEN lastPage.nextCursor ELSE Number(0)

appsGetPreviousPageParam(firstPage) ==
    IF ~firstPage.falsy THEN firstPage.nextCursor ELSE Number(0)

appsFlatten(d) ==
    IF d.defined
    THEN Flat([i \in 1..Len(d.pages) |->
                 IF ~d.pages[i].falsy THEN d.pages[i].items ELSE <<>>])
    ELSE <<>>

\* useQueryModelsOnly
modelsOnlyGetNextPageParam(lastPage) ==
    IF ~lastPage.falsy THEN lastPage.nextCursor ELSE Number(0)

modelsOnlyGetPreviousPageParam(firstPage) ==
    IF ~firstPage.falsy THEN firstPage.nextCursor ELSE Number(0)

modelsOnlyFlatten(d) ==
    IF d.defined
    THEN Flat([i \in 1..Len(d.pages) |->
                 IF ~d.pages[i].falsy THEN d.pages[i].items ELSE <<>>])
    ELSE <<>>

Hooks == {"useQueryModels", "useQueryApps", "useQueryModelsOnly"}

\* the endpoint each hook queries
Endpoint(h) ==
    CASE h = "useQueryModels" -> "model.getAll"
      [] h = "useQueryApps" -> "model.getAllAppsOnly"
      [] h = "useQueryModelsOnly" -> "model.getAllModelsOnly"

GetNextPageParam(h, lastPage) ==
    CASE h = "useQueryModels" -> modelsGetNextPageParam(lastPage)
      [] h = "useQueryApps" -> appsGetNextPageParam(lastPage)
      [] h = "useQueryModelsOnly" -> modelsOnlyGetNextPageParam(lastPage)

GetPreviousPageParam(h, firstPage) ==
    CASE h = "useQueryModels" -> modelsGetPreviousPageParam(firstPage)
      [] h = "useQueryApps" -> appsGetPreviousPageParam(firstPage)
      [] h = "useQueryModelsOnly" -> modelsOnlyGetPreviousPageParam(firstPage)

Flatten(h, d) ==
    CASE h = "useQueryModels" -> modelsFlatten(d)
      [] h = "useQueryApps" -> appsFlatten(d)
      [] h = "useQueryModelsOnly" -> modelsOnlyFlatten(d)

\* the page handed to getNextPageParam: pages[pages.length - 1]
LastPage(d) == IF Len(d.pages) = 0 THEN UndefinedPage ELSE d.pages[Len(d.pages)]

\* the page handed to getPreviousPageParam: pages[0]
FirstPage(d) == IF Len(d.pages) = 0 THEN UndefinedPage ELSE d.pages[1]

MaxPages == 3

\* pages an endpoint may answer with
SamplePages ==
    {UndefinedPage,
     Page(<<1, 2>>, Number(5)),
     Page(<<3>>, NoCursor),
     Page(<<2, 1>>, Number(7)),
     Page(<<>>, NoCursor)}

NoRequest == [direction |-> "none", endpoint |-> "", cursor |-> NoCursor, skipBatch |-> FALSE]

\* ------------------------------------------------------------------- state

VARIABLES
    routerQuery,     \* the router's query
    routerPathname,  \* the router's pathname
    query,           \* query destructured from useRouter() at the last recomputation
    pathname,        \* pathname destructured from useRouter() at the last recomputation
    modelResult,     \* result in useModelQueryParams
    modelData,       \* data in useModelQueryParams
    appResult,       \* result in useAppQueryParams
    appData,         \* data in useAppQueryParams
    dirty,           \* set was called since the last recomputation
    lastCall,        \* the last set call and the replace it issued
    hook,            \* the fetch hook the page mounts
    data,            \* data of its infinite query
    status,          \* idle, loading, success or error
    request,         \* the page request last dispatched
    models           \* the flattened items the hook returns

paramVars ==
    <<routerQuery, routerPathname, query, pathname, modelResult, modelData,
      appResult, appData, dirty, lastCall>>

fetchVars == <<hook, data, status, request, models>>

vars == <<paramVars, fetchVars>>

NoCall ==
    [by |-> "none", filters |-> EmptyObject,
     url |-> [pathname |-> "", query |-> EmptyObject],
     shallow |-> FALSE, replaces |-> 0, repeat |-> FALSE]

\* replace({ pathname, query }, undefined, { shallow: true }) as issued by set
replace(by, filters, path, q) ==
    [by |-> by, filters |-> filters,
     url |-> [pathname |-> path, query |-> q],
     shallow |-> TRUE, replaces |-> 1,
     repeat |-> ~dirty /\ lastCall.by # "none" /\ lastCall.filters = filters]

\* a fetch hook that has not been asked for a page
FetchIdle ==
    /\ data = NoData
    /\ status = "idle"
    /\ request = NoRequest
    /\ models = Flatten(hook, NoData)

ParamsInit(urls, pathnames) ==
    /\ routerQuery \in urls
    /\ routerPathname \in pathnames
    /\ query = routerQuery
    /\ pathname = routerPathname
    /\ modelResult = modelSafeParse(routerQuery)
    /\ modelData = modelDataOf(modelSafeParse(routerQuery))
    /\ appResult = appSafeParse(routerQuery)
    /\ appData = appDataOf(appSafeParse(routerQuery))
    /\ dirty = FALSE
    /\ lastCall = NoCall

Init ==
    /\ ParamsInit(Urls, Pathnames)
    /\ hook = "useQueryModels"
    /\ FetchIdle

\* the useMemo body of both hooks, run when [query, pathname, replace] changed
Recompute ==
    /\ dirty
    /\ query' = routerQuery
    /\ pathname' = routerPathname
    /\ modelResult' = modelSafeParse(routerQuery)
    /\ modelData' = modelDataOf(modelSafeParse(routerQuery))
    /\ appResult' = appSafeParse(routerQuery)
    /\ appData' = appDataOf(appSafeParse(routerQuery))
    /\ dirty' = FALSE
    /\ UNCHANGED <<routerQuery, routerPathname, lastCall, fetchVars>>

\* set of useModelQueryParams
ModelSet(filters) ==
    /\ Cardinality(DOMAIN modelSetQuery(query, filters)) <= MaxQueryKeys
    /\ lastCall' = replace("model", filters, pathname, modelSetQuery(query, filters))
    /\ routerQuery' = modelSetQuery(query, filters)
    /\ routerPathname' = pathname
    /\ dirty' = TRUE
    /\ UNCHANGED <<query, pathname, modelResult, modelData, appResult, appData, fetchVars>>

\* set of useAppQueryParams
AppSet(filters) ==
    /\ Cardinality(DOMAIN appSetQuery(query, filters)) <= MaxQueryKeys
    /\ lastCall' = replace("app", filters, pathname, appSetQuery(query, filters))
    /\ routerQuery' = appSetQuery(query, filters)
    /\ routerPathname' = pathname
    /\ dirty' = TRUE
    /\ UNCHANGED <<query, pathname, modelResult, modelData, appResult, appData, fetchVars>>

Next ==
    \/ Recompute
    \/ \E filters \in Updates : ModelSet(filters)
    \/ \E filters \in Updates : AppSet(filters)

Spec == Init /\ [][Next]_vars

\* ------------------------------------------------ the fetch hooks' behaviour

FetchInit ==
    /\ ParamsInit({EmptyObject}, Pathnames)
    /\ hook \in Hooks
    /\ FetchIdle

\* fetchNextPage: the page parameter is getNextPageParam(last page)
FetchNextPage ==
    /\ status # "loading"
    /\ Len(data.pages) < MaxPages
    /\ request' = [direction |-> "next", endpoint |-> Endpoint(hook),
                   cursor |-> GetNextPageParam(hook, LastPage(data)),
                   skipBatch |-> TRUE]
    /\ status' = "loading"
    /\ UNCHANGED <<hook, data, models, paramVars>>

\* fetchPreviousPage: the page parameter is getPreviousPageParam(first page)
FetchPreviousPage ==
    /\ status # "loading"
    /\ Len(data.pages) < MaxPages
    /\ request' = [direction |-> "previous", endpoint |-> Endpoint(hook),
                   cursor |-> GetPreviousPageParam(hook, FirstPage(data)),
                   skipBatch |-> TRUE]
    /\ status' = "loading"
    /\ UNCHANGED <<hook, data, models, paramVars>>

\* the endpoint answers: the page joins data.pages and models is recomputed
Resolve(page) ==
    /\ status = "loading"
    /\ data' = [defined |-> TRUE,
                pages |-> IF request.direction = "next"
                          THEN Append(data.pages, page)
                          ELSE <<page>> \o data.pages]
    /\ models' = Flatten(hook, data')
    /\ status' = "success"
    /\ UNCHANGED <<hook, request, paramVars>>

\* the endpoint fails: the error is surfaced, data and models stay
Reject ==
    /\ status = "loading"
    /\ status' = "error"
    /\ UNCHANGED <<hook, data, request, models, paramVars>>

FetchNext ==
    \/ FetchNextPage
    \/ FetchPreviousPage
    \/ \E page \in SamplePages : Resolve(page)
    \/ Reject

FetchSpec == FetchInit /\ [][FetchNext]_vars


\* ------------------------------------------------------------------ claims

\* the recognized keys of q whose value the Model schema rejects
ModelInvalidKeys(q) == {k \in DOMAIN q \cap RecognizedKeys : ~modelField(k, q[k]).ok}

\* the recognized keys of q whose value the App schema rejects
AppInvalidKeys(q) == {k \in DOMAIN q \cap RecognizedKeys : ~appField(k, q[k]).ok}

\* url is q overlaid with filters (filters win), empty-valued entries removed
IsMergeOf(url, q, filters) ==
    \A k \in Keys :
        LET held == k \in DOMAIN filters \/ k \in DOMAIN q
            val == IF k \in DOMAIN filters THEN filters[k] ELSE q[k]
        IN  /\ (k \in DOMAIN url) <=> (held /\ ~IsEmpty(val))
            /\ (k \in DOMAIN url) => url[k] = val

\* C1: whenever a recognized field of the URL query fails validation, the
\* data of useModelQueryParams / useAppQueryParams is exactly
\* { view: "categories" }: no sibling field survives the fallback.
C1_AllOrNothingFallback ==
    /\ ModelInvalidKeys(query) # {} => modelData = DefaultData
    /\ AppInvalidKeys(query) # {} => appData = DefaultData

\* reached after a set and a recomputation: an invalid view beside a valid
\* tag, and the read is the bare default
C1_Witness ==
    /\ ~dirty
    /\ lastCall.by # "none"
    /\ DOMAIN query = {"view", "tag"}
    /\ query["view"] = Str("grid")
    /\ query["tag"] = Str("anime")
    /\ modelData = DefaultData
    /\ appData = DefaultData

C3_NoLostUpdate ==
    [][dirty' => IsMergeOf(routerQuery', routerQuery, lastCall'.filters)]_vars

\* C4: a set repeated with the same update by a closure that saw the URL of
\* the first call leaves the URL query as the first call made it.
C4_SetIdempotent ==
    (dirty /\ lastCall.repeat) => routerQuery = query

\* the second of two equal calls that clear sort and select the feed view
C4_Witness ==
    /\ dirty
    /\ lastCall.repeat
    /\ DOMAIN lastCall.filters = {"sort", "view"}
    /\ routerQuery = [k \in {"view"} |-> Str("feed")]

\* C5: a present favorites / hidden decodes to true for the boolean true and
\* the string "true", to false for any other raw value, and never makes the
\* read fail.
C5_BooleanLike ==
    \A k \in {"favorites", "hidden"} \cap DOMAIN query :
        LET expected == Bool(query[k] \in {Bool(TRUE), Str("true")})
        IN  /\ k \notin ModelInvalidKeys(query)
            /\ k \notin AppInvalidKeys(query)
            /\ ModelInvalidKeys(query) \ {"favorites", "hidden"} = {}
                 => modelResult.success /\ modelData[k] = expected
            /\ AppInvalidKeys(query) \ {"favorites", "hidden"} = {}
                 => appResult.success /\ appData[k] = expected

\* favorites written as the native boolean and read back as true, beside a
\* hidden that is neither true nor "true"
C5_Witness ==
    /\ ~dirty
    /\ lastCall.by # "none"
    /\ DOMAIN query = {"favorites", "hidden"}
    /\ query["favorites"] = Bool(TRUE)
    /\ modelData["favorites"] = Bool(TRUE)
    /\ modelData["hidden"] = Bool(FALSE)

\* C6: on a successful read the data holds a key only if the key is
\* recognized and present in the URL query; unrecognized keys never make
\* the read fail.
C6_OnlyPresentRecognizedKeys ==
    /\ modelResult.success => DOMAIN modelData \subseteq (RecognizedKeys \cap DOMAIN query)
    /\ appResult.success => DOMAIN appData \subseteq (RecognizedKeys \cap DOMAIN query)
    /\ modelResult.success <=> ModelInvalidKeys(query) = {}
    /\ appResult.success <=> AppInvalidKeys(query) = {}

\* an unrecognized key beside a tag: the read succeeds with the tag alone
C6_Witness ==
    /\ ~dirty
    /\ lastCall.by # "none"
    /\ DOMAIN query = {"page", "tag"}
    /\ modelResult.success
    /\ DOMAIN modelData = {"tag"}

\* C9: the App read equals the Model read when sort is absent or valid in
\* both enumerations, falls back when sort is valid for Models only (and
\* the Model read when valid for Apps only); set yields the same URL in both.
C9_AppLikeModel ==
    /\ ("sort" \notin DOMAIN query
          \/ (query["sort"].t = "string" /\ query["sort"].v \in ModelSort \cap AppSort))
         => modelData = appData /\ modelResult.success = appResult.success
    /\ ("sort" \in DOMAIN query /\ query["sort"].t = "string")
         => /\ query["sort"].v \in ModelSort \ AppSort => appData = DefaultData
            /\ query["sort"].v \in AppSort \ ModelSort => modelData = DefaultData
    /\ \A filters \in Updates : modelSetQuery(query, filters) = appSetQuery(query, filters)

\* a sort only Models know: the Model read succeeds, the App read falls back
C9_Witness ==
    /\ ~dirty
    /\ lastCall.by # "none"
    /\ "sort" \in DOMAIN query
    /\ query["sort"] = Str("Most Downloaded")
    /\ modelResult.success
    /\ modelData # DefaultData
    /\ appData = DefaultData

RECURSIVE ItemCount(_)
ItemCount(pages) ==
    IF pages = <<>> THEN 0
    ELSE (IF Head(pages).falsy THEN 0 ELSE Len(Head(pages).items)) + ItemCount(Tail(pages))

\* C7: models is the concatenation of the pages' items in page order and
\* within-page order; a falsy page adds nothing, repeated items are kept,
\* and without data models is empty.
C7_FlattenKeepsOrder ==
    /\ ~data.defined => models = <<>>
    /\ Len(models) = ItemCount(data.pages)
    /\ \A p \in 1..Len(data.pages) :
          ~data.pages[p].falsy =>
              \A i \in 1..Len(data.pages[p].items) :
                  models[ItemCount(SubSeq(data.pages, 1, p - 1)) + i] = data.pages[p].items[i]

\* the pages [1,2], undefined, [3] flatten to [1,2,3]
C7_Witness ==
    /\ data.pages = <<Page(<<1, 2>>, Number(5)), UndefinedPage, Page(<<3>>, NoCursor)>>
    /\ models = <<1, 2, 3>>

\* C8: the cursor of a next-page (previous-page) request is the nextCursor
\* of the last (first) loaded page when that page exists, also when it is
\* no cursor at all, and the sentinel 0 when the page does not exist.
C8_CursorDerivation ==
    status = "loading" =>
        LET n == Len(data.pages)
            at == IF request.direction = "next" THEN n ELSE 1
        IN  /\ request.direction \in {"next", "previous"}
            /\ (n > 0 /\ ~data.pages[at].falsy) => request.cursor = data.pages[at].nextCursor
            /\ (n = 0 \/ data.pages[at].falsy) => request.cursor = Number(0)

\* a previous-page request whose first page carries no cursor
C8_Witness ==
    /\ status = "loading"
    /\ request.direction = "previous"
    /\ Len(data.pages) = 2
    /\ data.pages[1] = Page(<<3>>, NoCursor)
    /\ request.cursor = NoCursor

====
